---- MODULE Spec2Model ----
(***************************************************************************)
(* A model of red_tape_kit: the document AST of doc_ast.py with its        *)
(* normalization, and the element dispatch of the three renderers          *)
(* (pdf.py, docx.py, html.py).                                             *)
(*                                                                         *)
(* Python values are records tagged by "kind": the class name for the      *)
(* dataclasses of doc_ast.py, and "str", "list", "dict", "int", "None" for *)
(* the builtin values that can stand in an element position.  A Python     *)
(* list held in a field that is declared as a list (Sequence.items,        *)
(* ElementaryTable.rows, ...) is a TLA+ sequence; a dict is the sequence   *)
(* of its <<key, value>> pairs in insertion order.  A raised exception is  *)
(* the record Raise(exc), and it propagates through every caller.          *)
(***************************************************************************)
EXTENDS Integers, Sequences, FiniteSets, TLC

VARIABLES
    docs,      \* the objects the caller has built (Documents, or a table), by slot
    canon,     \* per slot: the result of Document.normalized(), once called
    again,     \* per slot: the result of normalizing canon[slot] once more
    renderer_class, \* the renderer the caller uses (the fixture of test_renderers.py)
    out,       \* per slot: what the last render of the document produced
    cursor,    \* the read position of every payload stream (BinaryIO)
    clock,     \* the ambient wall-clock
    kase,      \* which experiment the caller set up in docs
    called     \* the last method the caller called on an object, and what it returned

vars == <<docs, canon, again, renderer_class, out, cursor, clock, kase, called>>

-----------------------------------------------------------------------------
(* Values *)

Raise(exc) == [kind |-> "raise", exc |-> exc]
IsRaise(v) == v.kind = "raise"

Str(s) == [kind |-> "str", s |-> s]
List(items) == [kind |-> "list", items |-> items]
Dict(items) == [kind |-> "dict", items |-> items]
PyInt == [kind |-> "int"]
PyNone == [kind |-> "None"]

Text(text) == [kind |-> "Text", text |-> text]
InlineSequence(items) == [kind |-> "InlineSequence", items |-> items]
Attachment(content_io, basename, text) ==
    [kind |-> "Attachment", content_io |-> content_io, basename |-> basename, text |-> text]

Section(title, body) == [kind |-> "Section", title |-> title, body |-> body]
Sequence(items) == [kind |-> "Sequence", items |-> items]
Paragraph(text) == [kind |-> "Paragraph", text |-> text]
ElementaryTable(rows) == [kind |-> "ElementaryTable", rows |-> rows]
Table(head, body) == [kind |-> "Table", head |-> head, body |-> body]
UnorderedList(items) == [kind |-> "UnorderedList", items |-> items]
DefinitionList(items) == [kind |-> "DefinitionList", items |-> items]
Image(image_io, image_format, caption) ==
    [kind |-> "Image", image_io |-> image_io, image_format |-> image_format, caption |-> caption]

TableCellSpan_ROW == [kind |-> "TableCellSpan", name |-> "ROW"]
TableCellSpan_COLUMN == [kind |-> "TableCellSpan", name |-> "COLUMN"]

Document(language_code, title, subject, author, creator, creation_date, creation_place, body) ==
    [kind |-> "Document", language_code |-> language_code, title |-> title,
     subject |-> subject, author |-> author, creator |-> creator,
     creation_date |-> creation_date, creation_place |-> creation_place, body |-> body]

\* isinstance(element, InlineElement): the subclasses of InlineElement
InlineElementKinds == {"Text", "InlineSequence", "Attachment"}
\* the subclasses of BlockElement
BlockElementKinds ==
    {"Section", "Sequence", "Paragraph", "Table", "UnorderedList", "DefinitionList", "Image"}

-----------------------------------------------------------------------------
(* Helpers for exception propagation over a list of results *)

AnyRaise(seq) == \E i \in 1..Len(seq) : IsRaise(seq[i])
FirstRaise(seq) ==
    seq[CHOOSE i \in 1..Len(seq) : IsRaise(seq[i]) /\ \A j \in 1..(i - 1) : ~IsRaise(seq[j])]

\* dict construction {k: v for ...}: a key equal to one already present keeps
\* its first position and key object, and takes the later value
RECURSIVE DictOfPairs(_)
DictOfPairs(pairs) ==
    IF pairs = <<>> THEN <<>>
    ELSE LET n == Len(pairs)
             front == DictOfPairs(SubSeq(pairs, 1, n - 1))
             last == pairs[n]
         IN IF \E i \in 1..Len(front) : front[i][1] = last[1]
            THEN [i \in 1..Len(front) |->
                     IF front[i][1] = last[1] THEN <<front[i][1], last[2]>> ELSE front[i]]
            ELSE Append(front, last)

-----------------------------------------------------------------------------
(* doc_ast.py: normalization *)

RECURSIVE normalized(_), normalized_block(_), normalized_inline(_)

Section_normalized(self) ==
    LET title == normalized_inline(self.title)
        body == normalized_block(self.body)
    IN IF IsRaise(title) THEN title
       ELSE IF IsRaise(body) THEN body
       ELSE Section(title, body)

Sequence_normalized(self) ==
    LET items == [i \in 1..Len(self.items) |-> normalized_block(self.items[i])]
    IN IF AnyRaise(items) THEN FirstRaise(items) ELSE Sequence(items)


\* A variant of Paragraph.normalized that wraps the text in an InlineSequence
Paragraph_normalized_wrapping(self) ==
    LET text == normalized_inline(self.text)
    IN IF IsRaise(text) THEN text ELSE Paragraph(InlineSequence(<<text>>))

Paragraph_normalized(self) ==
    LET text == normalized_inline(self.text)
    IN IF IsRaise(text) THEN text ELSE Paragraph(text)

ElementaryTable_normalized(self) ==
    LET rows == [r \in 1..Len(self.rows) |->
                    [c \in 1..Len(self.rows[r]) |-> normalized_inline(self.rows[r][c])]]
        bad == [r \in 1..Len(rows) |->
                    IF AnyRaise(rows[r]) THEN FirstRaise(rows[r]) ELSE PyNone]
    IN IF AnyRaise(bad) THEN FirstRaise(bad) ELSE ElementaryTable(rows)

Table_normalized(self) ==
    LET head == IF self.head.kind = "list" THEN ElementaryTable(self.head.items) ELSE self.head
        body == IF self.body.kind = "list" THEN ElementaryTable(self.body.items) ELSE self.body
        nhead == normalized(head)
        nbody == normalized(body)
    IN IF IsRaise(nhead) THEN nhead
       ELSE IF IsRaise(nbody) THEN nbody
       ELSE Table(nhead, nbody)

UnorderedList_normalized(self) ==
    LET items == [i \in 1..Len(self.items) |-> normalized_block(self.items[i])]
    IN IF AnyRaise(items) THEN FirstRaise(items) ELSE UnorderedList(items)


\* A variant of DefinitionList.normalized that normalizes the values only
DefinitionList_normalized_values_only(self) ==
    LET values == [i \in 1..Len(self.items) |-> normalized_block(self.items[i][2])]
    IN IF AnyRaise(values) THEN FirstRaise(values)
       ELSE DefinitionList(DictOfPairs(
                [i \in 1..Len(self.items) |-> <<self.items[i][1], values[i]>>]))

DefinitionList_normalized(self) ==
    LET flat == [i \in 1..(2 * Len(self.items)) |->
                    IF i % 2 = 1 THEN normalized_inline(self.items[(i + 1) \div 2][1])
                    ELSE normalized_block(self.items[i \div 2][2])]
    IN IF AnyRaise(flat) THEN FirstRaise(flat)
       ELSE DefinitionList(DictOfPairs(
                [i \in 1..Len(self.items) |-> <<flat[2 * i - 1], flat[2 * i]>>]))

Image_normalized(self) ==
    LET caption == normalized_inline(self.caption)
    IN IF IsRaise(caption) THEN caption
       ELSE Image(self.image_io, self.image_format, caption)

Text_normalized(self) == self

InlineSequence_normalized(self) ==
    LET items == [i \in 1..Len(self.items) |-> normalized_inline(self.items[i])]
    IN IF AnyRaise(items) THEN FirstRaise(items) ELSE InlineSequence(items)

Attachment_normalized(self) ==
    LET text == normalized_inline(self.text)
    IN IF IsRaise(text) THEN text
       ELSE Attachment(self.content_io, self.basename, text)

TableCellSpan_normalized(self) == self

\* element.normalized(): the method the value's class defines; a value of a
\* class without one (str, list, dict, int, None) raises AttributeError
normalized(element) ==
    CASE element.kind = "Section" -> Section_normalized(element)
      [] element.kind = "Sequence" -> Sequence_normalized(element)
      [] element.kind = "Paragraph" -> Paragraph_normalized(element)
      [] element.kind = "ElementaryTable" -> ElementaryTable_normalized(element)
      [] element.kind = "Table" -> Table_normalized(element)
      [] element.kind = "UnorderedList" -> UnorderedList_normalized(element)
      [] element.kind = "DefinitionList" -> DefinitionList_normalized(element)
      [] element.kind = "Image" -> Image_normalized(element)
      [] element.kind = "Text" -> Text_normalized(element)
      [] element.kind = "InlineSequence" -> InlineSequence_normalized(element)
      [] element.kind = "Attachment" -> Attachment_normalized(element)
      [] element.kind = "TableCellSpan" -> TableCellSpan_normalized(element)
      [] OTHER -> Raise("AttributeError")

normalized_block(element) ==
    IF element.kind = "str" THEN Paragraph_normalized(Paragraph(element))
    ELSE IF element.kind = "dict" THEN DefinitionList_normalized(DefinitionList(element.items))
    ELSE IF element.kind = "list" THEN Sequence_normalized(Sequence(element.items))
    ELSE IF element.kind \in InlineElementKinds THEN Paragraph_normalized(Paragraph(element))
    ELSE normalized(element)

normalized_inline(element) ==
    IF element.kind = "str" THEN Text_normalized(Text(element.s))
    ELSE IF element.kind = "list" THEN InlineSequence_normalized(InlineSequence(element.items))
    ELSE normalized(element)

Document_normalized(self) ==
    LET title == normalized_inline(self.title)
        subject == normalized_inline(self.subject)
        author == normalized_inline(self.author)
        creator == normalized_inline(self.creator)
        creation_place == normalized_inline(self.creation_place)
        body == normalized_block(self.body)
        args == <<title, subject, author, creator, creation_place, body>>
    IN IF AnyRaise(args) THEN FirstRaise(args)
       ELSE Document(self.language_code, title, subject, author, creator,
                     self.creation_date, creation_place, body)

-----------------------------------------------------------------------------
(* doc_ast.py: plain_string, table geometry, creation_place_and_date *)

\* Whether reading element.plain_string raises: the property exists on the
\* inline classes only (AttributeError on every other value)
RECURSIVE plain_string_raises(_)
plain_string_raises(element) ==
    CASE element.kind = "Text" -> FALSE
      [] element.kind = "InlineSequence" ->
            \E i \in 1..Len(element.items) : plain_string_raises(element.items[i])
      [] element.kind = "Attachment" -> plain_string_raises(element.text)
      [] OTHER -> TRUE

RECURSIVE JoinStrings(_)
JoinStrings(strs) == IF strs = <<>> THEN "" ELSE Head(strs) \o JoinStrings(Tail(strs))

RECURSIVE plain_string(_)
plain_string(element) ==
    CASE element.kind = "Text" -> element.text
      [] element.kind = "InlineSequence" ->
            JoinStrings([i \in 1..Len(element.items) |-> plain_string(element.items[i])])
      [] element.kind = "Attachment" -> plain_string(element.text)


\* A variant of get_cell that indexes as Python lists do: a negative index
\* counts from the end
get_cell_wrapping(self, row_index, column_index) ==
    LET n == Len(self.rows)
        ri == IF row_index < 0 THEN row_index + n ELSE row_index
    IN IF ri < 0 \/ ri >= n THEN PyNone
       ELSE LET row == self.rows[ri + 1]
                ci == IF column_index < 0 THEN column_index + Len(row) ELSE column_index
            IN IF ci < 0 \/ ci >= Len(row) THEN PyNone ELSE row[ci + 1]

\* Indices are Python's (from 0); the absent cell is None
get_cell(self, row_index, column_index) ==
    IF row_index < 0 \/ row_index >= Len(self.rows) THEN PyNone
    ELSE LET row == self.rows[row_index + 1]
         IN IF column_index < 0 \/ column_index >= Len(row) THEN PyNone
            ELSE row[column_index + 1]


\* A variant of the loop of get_column_span that counts any span marker
RECURSIVE column_span_from_any_marker(_, _, _, _)
column_span_from_any_marker(self, row_index, column_index, span) ==
    IF get_cell(self, row_index, column_index + span).kind = "TableCellSpan"
    THEN column_span_from_any_marker(self, row_index, column_index, span + 1)
    ELSE span

RECURSIVE column_span_from(_, _, _, _)
column_span_from(self, row_index, column_index, span) ==
    IF get_cell(self, row_index, column_index + span) = TableCellSpan_COLUMN
    THEN column_span_from(self, row_index, column_index, span + 1)
    ELSE span

get_column_span(self, row_index, column_index) ==
    column_span_from(self, row_index, column_index, 1)

RECURSIVE row_span_from(_, _, _, _)
row_span_from(self, row_index, column_index, span) ==
    IF get_cell(self, row_index + span, column_index) = TableCellSpan_ROW
    THEN row_span_from(self, row_index, column_index, span + 1)
    ELSE span

get_row_span(self, row_index, column_index) ==
    row_span_from(self, row_index, column_index, 1)

Digit(n) == SubSeq("0123456789", n + 1, n + 1)
Pad2(n) == Digit((n \div 10) % 10) \o Digit(n % 10)
Pad4(n) == Pad2(n \div 100) \o Pad2(n % 100)


\* A variant of the date format that keeps the time of day
strftime_Ymd_HM(d) ==
    Pad4(d.year) \o "-" \o Pad2(d.month) \o "-" \o Pad2(d.day)
    \o " " \o Pad2(d.hour) \o ":" \o Pad2(d.minute)

\* datetime.strftime('%Y-%m-%d')
strftime_Ymd(d) == Pad4(d.year) \o "-" \o Pad2(d.month) \o "-" \o Pad2(d.day)

\* datetime.isoformat() of a naive datetime without microseconds
isoformat(d) ==
    strftime_Ymd(d) \o "T" \o Pad2(d.hour) \o ":" \o Pad2(d.minute) \o ":" \o Pad2(d.second)

creation_place_and_date(self) ==
    plain_string(self.creation_place) \o ", " \o strftime_Ymd(self.creation_date)

-----------------------------------------------------------------------------
(* Payload streams (io.BytesIO): content and the read position in cursor *)

Streams == {"io1", "io2"}
Payload(io) == IF io = "io1" THEN <<"b1", "b2">> ELSE <<"b3">>

\* base64.b64encode(b).decode()
b64encode(b) == JoinStrings(b)

\* stream.read(): everything from the read position on
ReadFrom(io, pos) == SubSeq(Payload(io), pos + 1, Len(Payload(io)))

\* An optional int (a level that may be None)
None == <<>>
Some(n) == <<n>>

-----------------------------------------------------------------------------
(* pdf.py: FPDFRenderer                                                    *)
(*                                                                         *)
(* The renderer's state is a record: the cursor on the page (x, y), the    *)
(* left margin, the font size, the page number, what was drawn (ops), the  *)
(* outline, the payload streams' read positions (cur) and the exception    *)
(* raised so far (err; PyNone when none).  Lengths are kept exact as pairs *)
(* <<mm, pt>>; x is <<mm of the last set_x or margin, width written        *)
(* since>>, a text's width being its length times the font size.  Pages    *)
(* never overflow.  A handler returns [st, ret]: the state and its return  *)
(* value.                                                                  *)
(***************************************************************************)

DEFAULT_FONT_SIZE == 10
MARGIN_LEFT == 20
MARGIN_TOP == 20
SEQUENCE_SPACE == 7
UNORDERED_LIST_HSPACE == 7
UNORDERED_LIST_BULLET == "-"
UNORDERED_LIST_BULLET_SPACE == 5

R(st, ret) == [st |-> st, ret |-> ret]
Failed(st) == IsRaise(st.err)
Fail(st, exc) == [st EXCEPT !.err = Raise(exc)]

PDF_ln_mm(st, h) == [st EXCEPT !.x = <<st.l_margin, 0>>, !.y = <<@[1] + h, @[2]>>]
\* self.ln(self.get_line_height()): 1.5 times the font size
PDF_ln_line(st) ==
    [st EXCEPT !.x = <<st.l_margin, 0>>, !.y = <<@[1], @[2] + (3 * st.font_size_pt) \div 2>>]
PDF_set_x(st, x) == [st EXCEPT !.x = <<x, 0>>]
PDF_add_page(st) ==
    [st EXCEPT !.page = @ + 1, !.x = <<st.l_margin, 0>>, !.y = <<MARGIN_TOP, 0>>]

\* FPDF.write / FPDF.cell with a text: nothing is drawn for an empty text
PDF_draw(st, op, text) ==
    IF text = "" THEN st
    ELSE [st EXCEPT
            !.ops = Append(@, [op |-> op, text |-> text, x |-> st.x, y |-> st.y,
                               size |-> st.font_size_pt, page |-> st.page]),
            !.x = <<@[1], @[2] + Len(text) * st.font_size_pt>>]

PDF_write_lh(st, text) == PDF_draw(st, "write", text)

PDF_cell_nl(st, text) ==
    LET drawn == PDF_draw(st, "cell", text)
    IN [drawn EXCEPT !.x = st.x, !.y = <<@[1], @[2] + (3 * st.font_size_pt) \div 2>>]

PDF_add_text(st, text) == R(PDF_write_lh(st, text.text), text.text # "")

RECURSIVE PDF_add_inline_element(_, _), PDF_add_inline_sequence_from(_, _, _, _)

PDF_add_inline_sequence(st, inline_sequence) ==
    PDF_add_inline_sequence_from(st, inline_sequence.items, 1, FALSE)

PDF_add_inline_sequence_from(st, items, i, anything_generated) ==
    IF Failed(st) \/ i > Len(items) THEN R(st, anything_generated)
    ELSE LET r == PDF_add_inline_element(st, items[i])
         IN PDF_add_inline_sequence_from(r.st, items, i + 1, anything_generated \/ r.ret)

PDF_add_attachment(st, attachment) ==
    LET r == PDF_add_inline_element(st, attachment.text)
        io == attachment.content_io
        \* content_io.seek(0); content_io.read()
        b == ReadFrom(io, 0)
    IN IF Failed(r.st) THEN r
       ELSE R([r.st EXCEPT
                 !.cur = [@ EXCEPT ![io] = Len(Payload(io))],
                 !.ops = Append(@, [op |-> "file_attachment_annotation", bytes |-> b,
                                    basename |-> attachment.basename, x |-> r.st.x,
                                    y |-> r.st.y, size |-> r.st.font_size_pt,
                                    page |-> r.st.page])],
              TRUE)

PDF_add_inline_element(st, inline_element) ==
    IF Failed(st) THEN R(st, FALSE)
    ELSE CASE inline_element.kind = "Text" -> PDF_add_text(st, inline_element)
           [] inline_element.kind = "InlineSequence" -> PDF_add_inline_sequence(st, inline_element)
           [] inline_element.kind = "Attachment" -> PDF_add_attachment(st, inline_element)
           [] OTHER -> R(Fail(st, "ValueError"), FALSE)

\* configure_section_title_styles: level0, level1 and level2 are set
section_title_styles ==
    [level \in {0, 1, 2} |->
        [font_size_pt |-> CASE level = 0 -> 18 [] level = 1 -> 14 [] level = 2 -> 10,
         t_margin |-> CASE level = 0 -> 6 [] level = 1 -> 4 [] level = 2 -> 3,
         b_margin |-> 5]]

\* with self._use_title_style(style): add_inline_element(title); ln(line height)
PDF_title_in_style(st, style, title) ==
    LET before == [PDF_ln_mm(st, style.t_margin) EXCEPT !.font_size_pt = style.font_size_pt]
        r == PDF_add_inline_element(before, title)
        after == [PDF_ln_line(r.st) EXCEPT !.font_size_pt = st.font_size_pt]
    IN IF Failed(r.st) THEN r.st ELSE PDF_ln_mm(after, style.b_margin)

PDF_table_rows(elementary_table) ==
    [ri \in 1..Len(elementary_table.rows) |->
        LET row == elementary_table.rows[ri]
            real == {ci \in 1..Len(row) : row[ci].kind # "TableCellSpan"}
        IN [ci \in 1..Len(row) |->
               IF ci \in real
               THEN [text |-> plain_string(row[ci]),
                     colspan |-> get_column_span(elementary_table, ri - 1, ci - 1),
                     rowspan |-> get_row_span(elementary_table, ri - 1, ci - 1)]
               ELSE [skipped |-> TRUE]]]

PDF_table_raises(elementary_table) ==
    \E ri \in 1..Len(elementary_table.rows) : \E ci \in 1..Len(elementary_table.rows[ri]) :
        /\ elementary_table.rows[ri][ci].kind # "TableCellSpan"
        /\ plain_string_raises(elementary_table.rows[ri][ci])

PDF_add_table(st, table_data) ==
    IF PDF_table_raises(table_data.head) \/ PDF_table_raises(table_data.body)
    THEN R(Fail(st, "AttributeError"), FALSE)
    ELSE LET rows == PDF_table_rows(table_data.head) \o PDF_table_rows(table_data.body)
             drawn == [st EXCEPT
                         !.ops = Append(@, [op |-> "table", rows |-> rows,
                                            num_heading_rows |-> Len(table_data.head.rows),
                                            x |-> st.x, y |-> st.y, page |-> st.page]),
                         !.x = <<st.l_margin, 0>>,
                         !.y = <<@[1], @[2] + Len(rows) * ((3 * st.font_size_pt) \div 2)>>]
         IN R(drawn, TRUE)

\* self.image(image.image_io, w=100): the library opens the stream from its start
PDF_add_image(st, image) ==
    R([st EXCEPT
         !.cur = [@ EXCEPT ![image.image_io] = Len(Payload(image.image_io))],
         !.ops = Append(@, [op |-> "image", bytes |-> ReadFrom(image.image_io, 0),
                            x |-> st.x, y |-> st.y, page |-> st.page]),
         !.x = <<st.l_margin, 0>>,
         !.y = <<@[1] + 100, @[2]>>],
      TRUE)

RECURSIVE PDF_add_element(_, _, _), PDF_add_sequence_from(_, _, _, _, _, _),
          PDF_add_unordered_list_from(_, _, _, _, _)


\* A variant of add_paragraph that returns what add_inline_element returned
PDF_add_paragraph_returning_generated(st, paragraph) ==
    PDF_add_inline_element(st, paragraph.text)

PDF_add_paragraph(st, paragraph) ==
    LET r == PDF_add_inline_element(st, paragraph.text)
    IN R(r.st, TRUE)


\* A variant of add_sequence that renders its items one level deeper
PDF_add_sequence_one_level_deeper(st, sequence, level) ==
    PDF_add_sequence_from(st, sequence.items, 1,
                          IF level = None THEN None ELSE Some(level[1] + 1), FALSE, FALSE)

PDF_add_sequence(st, sequence, level) ==
    PDF_add_sequence_from(st, sequence.items, 1, level, FALSE, FALSE)


\* A variant of the loop of add_sequence that spaces every item but the first,
\* whatever the item before it generated
RECURSIVE PDF_add_sequence_from_spacing_every_item(_, _, _, _, _, _)
PDF_add_sequence_from_spacing_every_item(st, items, i, level, ln_required, anything_generated) ==
    IF Failed(st) \/ i > Len(items) THEN R(st, anything_generated)
    ELSE LET spaced == IF i > 1 THEN PDF_ln_mm(st, SEQUENCE_SPACE) ELSE st
             r == PDF_add_element(spaced, items[i], level)
         IN PDF_add_sequence_from_spacing_every_item(r.st, items, i + 1, level, r.ret,
                                                     anything_generated \/ r.ret)

PDF_add_sequence_from(st, items, i, level, ln_required, anything_generated) ==
    IF Failed(st) \/ i > Len(items) THEN R(st, anything_generated)
    ELSE LET spaced == IF ln_required THEN PDF_ln_mm(st, SEQUENCE_SPACE) ELSE st
             r == PDF_add_element(spaced, items[i], level)
         IN PDF_add_sequence_from(r.st, items, i + 1, level, r.ret,
                                  anything_generated \/ r.ret)

PDF_add_section(st, section, level) ==
    IF level = None \/ level[1] \notin DOMAIN section_title_styles
    THEN R(Fail(st, "KeyError"), FALSE)
    ELSE LET section_style == section_title_styles[level[1]]
             \* offset_rendering: a dry run whose drawing is rolled back
             dry == PDF_title_in_style(st, section_style, section.title)
             start == [st EXCEPT !.cur = dry.cur]
             titled == PDF_title_in_style(start, section_style, section.title)
             outlined ==
                [titled EXCEPT
                    !.outline = Append(@, [name |-> plain_string(section.title),
                                           level |-> level[1], page |-> st.page,
                                           top |-> st.y])]
         IN IF Failed(dry) THEN R(Fail(st, dry.err.exc), FALSE)
            ELSE R(PDF_add_element(outlined, section.body, Some(level[1] + 1)).st, TRUE)

PDF_add_unordered_list(st, unordered_list) ==
    LET orig_left_margin == st.l_margin
        new_left_margin == orig_left_margin + UNORDERED_LIST_BULLET_SPACE
        inside == PDF_add_unordered_list_from(
                      [st EXCEPT !.l_margin = new_left_margin],
                      unordered_list.items, 1, orig_left_margin, new_left_margin)
    IN IF Failed(inside) THEN R(inside, FALSE)
       ELSE R([inside EXCEPT !.l_margin = orig_left_margin], TRUE)

PDF_add_unordered_list_from(st, items, i, orig_left_margin, new_left_margin) ==
    IF Failed(st) \/ i > Len(items) THEN st
    ELSE LET spaced == IF i > 1 THEN PDF_ln_mm(st, UNORDERED_LIST_HSPACE) ELSE st
             bullet == PDF_draw(PDF_set_x(spaced, orig_left_margin), "cell",
                                UNORDERED_LIST_BULLET)
             r == PDF_add_element(PDF_set_x(bullet, new_left_margin), items[i], None)
         IN PDF_add_unordered_list_from(r.st, items, i + 1, orig_left_margin, new_left_margin)

\* The Sequence([Paragraph(term), definition]) items add_definition_list builds
DefinitionListAsItems(definition_list) ==
    [i \in 1..Len(definition_list.items) |->
        Sequence(<<Paragraph(definition_list.items[i][1]), definition_list.items[i][2]>>)]

PDF_add_definition_list(st, definition_list) ==
    R(PDF_add_element(st, UnorderedList(DefinitionListAsItems(definition_list)), None).st,
      TRUE)

PDF_add_element(st, element, level) ==
    IF Failed(st) THEN R(st, FALSE)
    ELSE CASE element.kind = "Section" -> PDF_add_section(st, element, level)
           [] element.kind = "Paragraph" -> PDF_add_paragraph(st, element)
           [] element.kind = "Table" -> PDF_add_table(st, element)
           [] element.kind = "UnorderedList" -> PDF_add_unordered_list(st, element)
           [] element.kind = "DefinitionList" -> PDF_add_definition_list(st, element)
           [] element.kind = "Sequence" -> PDF_add_sequence(st, element, level)
           [] element.kind = "Image" -> PDF_add_image(st, element)
           [] OTHER -> R(Fail(st, "ValueError"), FALSE)

\* The fields whose plain_string set_meta and the cover read
MetaRaises(document) ==
    \E f \in {"title", "subject", "author", "creator", "creation_place"} :
        plain_string_raises(document[f])

PDF_set_meta(st, document) ==
    IF MetaRaises(document) THEN Fail(st, "AttributeError")
    ELSE [st EXCEPT !.meta = [lang |-> document.language_code,
                              title |-> plain_string(document.title),
                              subject |-> plain_string(document.subject),
                              author |-> plain_string(document.author),
                              creator |-> plain_string(document.creator),
                              creation_date |-> document.creation_date]]

PDF_add_cover(st, document) ==
    LET s1 == [PDF_set_x([PDF_add_page(st) EXCEPT !.x = <<st.l_margin, 0>>, !.y = <<140, 0>>], 60)
                  EXCEPT !.font_size_pt = 24]
        s2 == PDF_ln_line(PDF_add_inline_element(s1, document.title).st)
        s3 == PDF_set_x([s2 EXCEPT !.font_size_pt = 12], 60)
        s4 == PDF_set_x(PDF_ln_line(PDF_add_inline_element(s3, document.subject).st), 60)
        s5 == PDF_set_x(PDF_ln_line(PDF_add_inline_element(s4, document.author).st), 60)
    IN IF Failed(s5) THEN s5 ELSE PDF_cell_nl(s5, creation_place_and_date(document))

PDF_add_body(st, document) ==
    PDF_add_element([PDF_add_page(st) EXCEPT !.font_size_pt = DEFAULT_FONT_SIZE],
                    document.body, Some(0)).st

\* FPDFRenderer(document) and render(f): the written file, or the exception
FPDFRenderer(document, cur) ==
    LET st0 == [x |-> <<0, 0>>, y |-> <<0, 0>>, l_margin |-> MARGIN_LEFT,
                font_size_pt |-> 0, page |-> 0, ops |-> <<>>, outline |-> <<>>,
                meta |-> PyNone, cur |-> cur, err |-> PyNone]
        st1 == PDF_set_meta(st0, document)
        st2 == IF Failed(st1) THEN st1 ELSE PDF_add_cover(st1, document)
        st3 == IF Failed(st2) THEN st2 ELSE PDF_add_body(st2, document)
    IN [file |-> IF Failed(st3) THEN st3.err
                 ELSE [kind |-> "pdf", meta |-> st3.meta, ops |-> st3.ops,
                       outline |-> st3.outline, pages |-> st3.page],
        cur |-> st3.cur]

-----------------------------------------------------------------------------
(* docx.py: DOCXRenderer                                                   *)
(*                                                                         *)
(* The renderer's state: the body items python-docx was asked to add       *)
(* (body), the streams' read positions (cur) and the exception raised so   *)
(* far (err).                                                              *)
(***************************************************************************)

DOCX_put(st, item) == [st EXCEPT !.body = Append(@, item)]

RECURSIVE DOCX_add_element(_, _, _, _, _), DOCX_add_sequence_from(_, _, _, _, _, _),
          DOCX_add_unordered_list_from(_, _, _, _)

DOCX_add_sequence(st, sequence, section_level, list_level, first_in_list_item) ==
    DOCX_add_sequence_from(st, sequence.items, 1, section_level, list_level, first_in_list_item)

DOCX_add_sequence_from(st, items, i, section_level, list_level, first_in_list_item) ==
    IF Failed(st) \/ i > Len(items) THEN st
    ELSE DOCX_add_sequence_from(
             DOCX_add_element(st, items[i], section_level, list_level, first_in_list_item),
             items, i + 1, section_level, list_level, FALSE)

\* add_heading(text, level) takes a level in 0..9; None + 1 is a TypeError
DOCX_add_section(st, section, section_level) ==
    IF plain_string_raises(section.title) THEN Fail(st, "AttributeError")
    ELSE IF section_level = None THEN Fail(st, "TypeError")
    ELSE IF section_level[1] \notin 0..9 THEN Fail(st, "ValueError")
    ELSE DOCX_add_element(
             DOCX_put(st, [op |-> "heading", text |-> plain_string(section.title),
                           level |-> section_level[1]]),
             section.body, Some(section_level[1] + 1), None, FALSE)

ToStr(n) == IF n < 10 THEN Digit(n) ELSE Digit((n \div 10) % 10) \o Digit(n % 10)

\* The style add_paragraph picks, or the exception its comparisons raise
DOCX_paragraph_style(list_level, first_in_list_item) ==
    IF ~first_in_list_item /\ list_level = None THEN Str("Body Text")
    ELSE IF ~first_in_list_item /\ list_level = Some(1) THEN Str("List Continue")
    ELSE IF ~first_in_list_item /\ list_level[1] > 1
         THEN Str("List Continue " \o ToStr(list_level[1]))
    ELSE IF first_in_list_item /\ list_level = Some(1) THEN Str("List Bullet")
    ELSE IF first_in_list_item /\ list_level = None THEN Raise("TypeError")
    ELSE IF first_in_list_item /\ list_level[1] > 1
         THEN Str("List Bullet " \o ToStr(list_level[1]))
    ELSE Raise("ValueError")

DOCX_add_paragraph(st, paragraph, list_level, first_in_list_item) ==
    LET style == DOCX_paragraph_style(list_level, first_in_list_item)
    IN IF IsRaise(style) THEN Fail(st, style.exc)
       ELSE IF plain_string_raises(paragraph.text) THEN Fail(st, "AttributeError")
       ELSE DOCX_put(st, [op |-> "paragraph", text |-> plain_string(paragraph.text),
                          style |-> style.s])

\* table_data.headings: Table has the fields head and body only
DOCX_add_table(st, table_data) == Fail(st, "AttributeError")

\* A variant of add_unordered_list that hands its items the list's own level
DOCX_add_unordered_list_keeping_level(st, unordered_list, list_level) ==
    DOCX_add_unordered_list_from(st, unordered_list.items, 1,
                                 (IF list_level = None THEN 0 ELSE list_level[1]) - 1)

DOCX_add_unordered_list(st, unordered_list, list_level) ==
    DOCX_add_unordered_list_from(st, unordered_list.items, 1,
                                 IF list_level = None THEN 0 ELSE list_level[1])

DOCX_add_unordered_list_from(st, items, i, list_level) ==
    IF Failed(st) \/ i > Len(items) THEN st
    ELSE DOCX_add_unordered_list_from(
             DOCX_add_element(st, items[i], None, Some(list_level + 1), TRUE),
             items, i + 1, list_level)

DOCX_add_definition_list(st, definition_list) ==
    DOCX_add_element(st, UnorderedList(DefinitionListAsItems(definition_list)),
                     None, Some(0), FALSE)

\* add_picture(image.image_io, ...): the library reads the stream from its start
DOCX_add_image(st, image) ==
    LET pictured == [DOCX_put(st, [op |-> "picture", bytes |-> ReadFrom(image.image_io, 0)])
                        EXCEPT !.cur = [@ EXCEPT ![image.image_io] = Len(Payload(image.image_io))]]
    IN IF plain_string_raises(image.caption) THEN Fail(pictured, "AttributeError")
       ELSE DOCX_put(pictured, [op |-> "paragraph", text |-> plain_string(image.caption),
                                style |-> "Normal"])

DOCX_add_element(st, element, section_level, list_level, first_in_list_item) ==
    IF Failed(st) THEN st
    ELSE CASE element.kind = "Section" -> DOCX_add_section(st, element, section_level)
           [] element.kind = "Paragraph" ->
                 DOCX_add_paragraph(st, element, list_level, first_in_list_item)
           [] element.kind = "Table" -> DOCX_add_table(st, element)
           [] element.kind = "UnorderedList" -> DOCX_add_unordered_list(st, element, list_level)
           [] element.kind = "DefinitionList" -> DOCX_add_definition_list(st, element)
           [] element.kind = "Sequence" ->
                 DOCX_add_sequence(st, element, section_level, list_level, first_in_list_item)
           [] element.kind = "Image" -> DOCX_add_image(st, element)
           [] OTHER -> Fail(st, "ValueError")

DOCX_set_meta(document) ==
    [language |-> document.language_code,
     title |-> plain_string(document.title),
     subject |-> plain_string(document.subject),
     author |-> plain_string(document.author),
     creator |-> plain_string(document.creator),
     created |-> document.creation_date]

DOCX_add_cover(st, document) ==
    DOCX_put(DOCX_put(DOCX_put(st,
        [op |-> "heading", text |-> plain_string(document.title), level |-> 0]),
        [op |-> "paragraph", text |-> plain_string(document.subject), style |-> "Normal"]),
        [op |-> "paragraph",
         text |-> "Autor: " \o plain_string(document.author) \o "\n"
                  \o creation_place_and_date(document),
         style |-> "Normal"])

DOCX_add_body(st, document) ==
    DOCX_add_element(
        DOCX_put(st,
            [op |-> "section",
             header |-> plain_string(document.title) \o "\n" \o plain_string(document.subject),
             footer |-> plain_string(document.author) \o "\n"
                        \o creation_place_and_date(document)]),
        document.body, Some(1), None, FALSE)


\* The library's own _ZipPkgWriter.write: writestr stamps the member with the
\* current time
DOCX_library_write_date_time(now) == <<2017, 1, 1 + now, 0, 0, 0>>

\* render(file): fixed_write builds ZipInfo(filename=...) without a date_time,
\* so every member of the package is stamped with ZipInfo's default
DOCX_fixed_write_date_time(now) == <<1980, 1, 1, 0, 0, 0>>

\* DOCXRenderer(document) and render(file) at wall-clock now
DOCXRenderer(document, cur, now) ==
    IF MetaRaises(document) THEN [file |-> Raise("AttributeError"), cur |-> cur]
    ELSE LET st0 == [body |-> <<>>, cur |-> cur, err |-> PyNone]
             st1 == DOCX_add_body(DOCX_add_cover(st0, document), document)
         IN [file |-> IF Failed(st1) THEN st1.err
                      ELSE [kind |-> "docx", core_properties |-> DOCX_set_meta(document),
                            body |-> st1.body,
                            date_time |-> DOCX_fixed_write_date_time(now)],
             cur |-> st1.cur]

-----------------------------------------------------------------------------
(* html.py: HTMLRenderer                                                   *)
(*                                                                         *)
(* An ElementTree element is [tag, attrs, text, kids].  A handler's state  *)
(* holds the children appended so far to the element it was given (kids),  *)
(* the streams' read positions (cur) and the exception raised (err).       *)
(***************************************************************************)

Element(tag, attrs, text, kids) == [tag |-> tag, attrs |-> attrs, text |-> text, kids |-> kids]

\* A fresh element to fill, and ET.SubElement(html_el, tag, ...) once filled
HTML_inside(st) == [st EXCEPT !.kids = <<>>]
HTML_SubElement(st, tag, attrs, text, filled) ==
    [kids |-> Append(st.kids, Element(tag, attrs, text, filled.kids)),
     cur |-> filled.cur, err |-> filled.err]

RECURSIVE HTML_add_inline_element(_, _), HTML_add_inline_elements_from(_, _, _)

HTML_add_inline_elements_from(st, items, i) ==
    IF Failed(st) \/ i > Len(items) THEN st
    ELSE HTML_add_inline_elements_from(HTML_add_inline_element(st, items[i]), items, i + 1)

HTML_add_attachment(st, attachment) ==
    LET io == attachment.content_io
        \* content_io.seek(0); b64encode(content_io.read())
        b64_str == b64encode(ReadFrom(io, 0))
        read == [HTML_inside(st) EXCEPT !.cur = [@ EXCEPT ![io] = Len(Payload(io))]]
    IN HTML_SubElement(st, "a",
           << <<"download", attachment.basename>>, <<"target", "_blank">>,
              <<"rel", "noopener noreferrer">>, <<"type", "application/octet-stream">>,
              <<"href", "data:application/octet-stream;base64," \o b64_str>> >>,
           "", HTML_add_inline_element(read, attachment.text))


\* A variant of add_inline_element that gives an InlineSequence its own span
HTML_add_inline_element_wrapping_sequences(st, element) ==
    IF Failed(st) THEN st
    ELSE CASE element.kind = "Text" ->
                 HTML_SubElement(st, "span", <<>>, element.text, HTML_inside(st))
           [] element.kind = "InlineSequence" ->
                 HTML_SubElement(st, "span", <<>>, "",
                     HTML_add_inline_elements_from(HTML_inside(st), element.items, 1))
           [] element.kind = "Attachment" -> HTML_add_attachment(st, element)
           [] OTHER -> Fail(st, "ValueError")

HTML_add_inline_element(st, element) ==
    IF Failed(st) THEN st
    ELSE CASE element.kind = "Text" ->
                 HTML_SubElement(st, "span", <<>>, element.text, HTML_inside(st))
           [] element.kind = "InlineSequence" ->
                 HTML_add_inline_elements_from(st, element.items, 1)
           [] element.kind = "Attachment" -> HTML_add_attachment(st, element)
           [] OTHER -> Fail(st, "ValueError")

RECURSIVE HTML_add_row_from(_, _, _, _, _), HTML_add_rows_from(_, _, _, _)

HTML_add_row_from(st, elementary_table, ri, ci, cell_tag) ==
    IF Failed(st) \/ ci > Len(elementary_table.rows[ri]) THEN st
    ELSE LET cell == elementary_table.rows[ri][ci]
             column_span == get_column_span(elementary_table, ri - 1, ci - 1)
             row_span == get_row_span(elementary_table, ri - 1, ci - 1)
             attrs == (IF column_span > 1 THEN << <<"colspan", ToStr(column_span)>> >> ELSE <<>>)
                      \o (IF row_span > 1 THEN << <<"rowspan", ToStr(row_span)>> >> ELSE <<>>)
             next == IF cell.kind = "TableCellSpan" THEN st
                     ELSE HTML_SubElement(st, cell_tag, attrs, "",
                                          HTML_add_inline_element(HTML_inside(st), cell))
         IN HTML_add_row_from(next, elementary_table, ri, ci + 1, cell_tag)

HTML_add_rows_from(st, elementary_table, ri, cell_tag) ==
    IF Failed(st) \/ ri > Len(elementary_table.rows) THEN st
    ELSE HTML_add_rows_from(
             HTML_SubElement(st, "tr", <<>>, "",
                 HTML_add_row_from(HTML_inside(st), elementary_table, ri, 1, cell_tag)),
             elementary_table, ri + 1, cell_tag)

HTML_add_elementary_table(st, elementary_table, cell_tag) ==
    HTML_add_rows_from(st, elementary_table, 1, cell_tag)

HTML_add_table(st, table_data) ==
    LET thead == HTML_SubElement(HTML_inside(st), "thead", <<>>, "",
                     HTML_add_elementary_table(HTML_inside(st), table_data.head, "th"))
        tbody == IF Failed(thead) THEN thead
                 ELSE HTML_SubElement(thead, "tbody", <<>>, "",
                          HTML_add_elementary_table(HTML_inside(thead), table_data.body, "td"))
    IN HTML_SubElement(st, "table", <<>>, "", tbody)

content_types == [png |-> "image/png", jpg |-> "image/jpeg", jpeg |-> "image/jpeg", gif |-> "image/gif"]

\* image.image_io.read(): from wherever the stream's read position is
HTML_add_image(st, image) ==
    IF image.image_format \notin DOMAIN content_types THEN Fail(st, "KeyError")
    ELSE LET io == image.image_io
             b64_str == b64encode(ReadFrom(io, st.cur[io]))
             read == [HTML_inside(st) EXCEPT !.cur = [@ EXCEPT ![io] = Len(Payload(io))]]
             img_src == "data:" \o content_types[image.image_format] \o ";base64," \o b64_str
         IN IF plain_string_raises(image.caption) THEN Fail(read, "AttributeError")
            ELSE HTML_SubElement(st, "figure", <<>>, "",
                     HTML_SubElement(read, "img",
                         << <<"src", img_src>>, <<"alt", plain_string(image.caption)>> >>,
                         "", read))

RECURSIVE HTML_add_element(_, _, _), HTML_add_sequence_from(_, _, _, _),
          HTML_add_unordered_list_from(_, _, _), HTML_add_definition_list_from(_, _, _)

HTML_add_sequence_from(st, items, i, heading_level) ==
    IF Failed(st) \/ i > Len(items) THEN st
    ELSE HTML_add_sequence_from(HTML_add_element(st, items[i], heading_level),
                                items, i + 1, heading_level)

HTML_add_sequence(st, sequence, heading_level) ==
    HTML_add_sequence_from(st, sequence.items, 1, heading_level)

\* The heading and the body, added to the element add_section works on
HTML_section_content(st, section, heading_level) ==
    HTML_add_element(
        HTML_SubElement(st, "h" \o ToStr(heading_level), <<>>, "",
                        HTML_add_inline_element(HTML_inside(st), section.title)),
        section.body, Some(heading_level + 1))

\* assert heading_level >= 2: None >= 2 is a TypeError
HTML_add_section(st, section, heading_level) ==
    IF heading_level = None THEN Fail(st, "TypeError")
    ELSE IF heading_level[1] < 2 THEN Fail(st, "AssertionError")
    ELSE IF heading_level[1] = 2
         THEN HTML_SubElement(st, "section", <<>>, "",
                  HTML_section_content(HTML_inside(st), section, heading_level[1]))
    ELSE HTML_section_content(st, section, heading_level[1])

HTML_add_paragraph(st, paragraph) ==
    HTML_SubElement(st, "p", <<>>, "", HTML_add_inline_element(HTML_inside(st), paragraph.text))

HTML_add_unordered_list_from(st, items, i) ==
    IF Failed(st) \/ i > Len(items) THEN st
    ELSE HTML_add_unordered_list_from(
             HTML_SubElement(st, "li", <<>>, "",
                             HTML_add_element(HTML_inside(st), items[i], None)),
             items, i + 1)

HTML_add_unordered_list(st, unordered_list) ==
    HTML_SubElement(st, "ul", <<>>, "",
                    HTML_add_unordered_list_from(HTML_inside(st), unordered_list.items, 1))

HTML_add_definition_list_from(st, items, i) ==
    IF Failed(st) \/ i > Len(items) THEN st
    ELSE LET dt == HTML_SubElement(st, "dt", <<>>, "",
                       HTML_add_inline_element(HTML_inside(st), items[i][1]))
             dd == IF Failed(dt) THEN dt
                   ELSE HTML_SubElement(dt, "dd", <<>>, "",
                            HTML_add_element(HTML_inside(dt), items[i][2], None))
         IN HTML_add_definition_list_from(dd, items, i + 1)

HTML_add_definition_list(st, definition_list) ==
    HTML_SubElement(st, "dl", <<>>, "",
                    HTML_add_definition_list_from(HTML_inside(st), definition_list.items, 1))

\* A variant of add_element that skips a value it does not handle
HTML_add_element_skipping_unknown(st, element, heading_level) ==
    IF Failed(st) THEN st
    ELSE CASE element.kind = "Section" -> HTML_add_section(st, element, heading_level)
           [] element.kind = "Paragraph" -> HTML_add_paragraph(st, element)
           [] element.kind = "Table" -> HTML_add_table(st, element)
           [] element.kind = "UnorderedList" -> HTML_add_unordered_list(st, element)
           [] element.kind = "DefinitionList" -> HTML_add_definition_list(st, element)
           [] element.kind = "Sequence" -> HTML_add_sequence(st, element, heading_level)
           [] element.kind = "Image" -> HTML_add_image(st, element)
           [] OTHER -> st

HTML_add_element(st, element, heading_level) ==
    IF Failed(st) THEN st
    ELSE CASE element.kind = "Section" -> HTML_add_section(st, element, heading_level)
           [] element.kind = "Paragraph" -> HTML_add_paragraph(st, element)
           [] element.kind = "Table" -> HTML_add_table(st, element)
           [] element.kind = "UnorderedList" -> HTML_add_unordered_list(st, element)
           [] element.kind = "DefinitionList" -> HTML_add_definition_list(st, element)
           [] element.kind = "Sequence" -> HTML_add_sequence(st, element, heading_level)
           [] element.kind = "Image" -> HTML_add_image(st, element)
           [] OTHER -> Fail(st, "ValueError")

HTML_add_head(document) ==
    Element("head", <<>>, "",
        << Element("meta", << <<"charset", "utf-8">> >>, "", <<>>),
           Element("title", <<>>, plain_string(document.title), <<>>),
           Element("meta", << <<"name", "description">>,
                              <<"content", plain_string(document.subject)>> >>, "", <<>>),
           Element("meta", << <<"name", "author">>,
                              <<"content", plain_string(document.author)>> >>, "", <<>>),
           Element("meta", << <<"name", "generator">>,
                              <<"content", plain_string(document.creator)>> >>, "", <<>>),
           Element("meta", << <<"name", "created">>,
                              <<"content", isoformat(document.creation_date)>> >>, "", <<>>),
           Element("meta", << <<"name", "viewport">>,
                              <<"content", "width=device-width, initial-scale=1">> >>, "", <<>>),
           Element("link", << <<"rel", "stylesheet">>,
                              <<"href", "https://edwardtufte.github.io/tufte-css/tufte.css">> >>,
                   "", <<>>) >>)

HTML_add_cover(st, document) ==
    LET h1 == HTML_SubElement(st, "h1", <<>>, "",
                  HTML_add_inline_element(HTML_inside(st), document.title))
        subject == HTML_add_inline_element(HTML_inside(h1), document.subject)
        br1 == HTML_SubElement(subject, "br", <<>>, "", HTML_inside(subject))
        author == HTML_add_inline_element(br1, document.author)
        br2 == HTML_SubElement(author, "br", <<>>, "", HTML_inside(author))
        span == HTML_SubElement(br2, "span", <<>>, creation_place_and_date(document),
                                HTML_inside(br2))
    IN IF Failed(author) THEN [h1 EXCEPT !.err = author.err]
       ELSE IF plain_string_raises(document.creation_place) THEN Fail(h1, "AttributeError")
       ELSE HTML_SubElement(h1, "p", << <<"class_", "subtitle">> >>, "", span)

HTML_add_body(st, document) ==
    LET article == HTML_add_element(HTML_add_cover(HTML_inside(st), document),
                                    document.body, Some(2))
    IN HTML_SubElement(st, "body", <<>>, "",
           HTML_SubElement(HTML_inside(st), "article", <<>>, "", article))

\* HTMLRenderer(document) and render(f): the written tree, or the exception
HTMLRenderer(document, cur) ==
    IF \E f \in {"title", "subject", "author", "creator"} : plain_string_raises(document[f])
    THEN [file |-> Raise("AttributeError"), cur |-> cur]
    ELSE LET st0 == [kids |-> <<HTML_add_head(document)>>, cur |-> cur, err |-> PyNone]
             st1 == HTML_add_body(st0, document)
         IN [file |-> IF Failed(st1) THEN st1.err
                      ELSE [kind |-> "html",
                            root |-> Element("html", << <<"lang", document.language_code>> >>,
                                             "", st1.kids)],
             cur |-> st1.cur]

-----------------------------------------------------------------------------
(* The caller: the documents it builds *)

MaxItems == 2     \* the longest list of items the caller writes
MaxClock == 1     \* the wall-clock runs from 0 to MaxClock

SeqsUpTo(S, n) == UNION {[1..k -> S] : k \in 0..n}

\* DocumentFactory of test_renderers.py with the given body
DocumentFactory(body) ==
    Document("en", Text("T"), Text("S"), Text("U"), Text("C"),
             [year |-> 2017, month |-> 1, day |-> 1, hour |-> 0, minute |-> 0, second |-> 0],
             Text("P"), body)

InlineFields == {"title", "subject", "author", "creator", "creation_place"}

\* The raw documents the caller writes: sugar and canonical variants at every
\* position, and values that are no element of the position they stand at
RawDocuments ==
    LET RawInlineAtoms == {Str("A"), Text(""), Text("B")}
        NotInline == {PyInt, Dict(<<>>), Paragraph(Str("A")), Section(Str("A"), Str("B"))}
        RawInline ==
            RawInlineAtoms \cup NotInline
            \cup {List(s) : s \in SeqsUpTo(RawInlineAtoms \cup {PyInt}, MaxItems)}
            \cup {InlineSequence(s) :
                    s \in SeqsUpTo(RawInlineAtoms \cup {Paragraph(Str("A"))}, MaxItems)}
            \cup {Attachment("io1", "a.txt", t) :
                    t \in RawInlineAtoms \cup {List(<<Str("A"), Text("B")>>), PyNone}}
            \cup {List(<<List(<<Str("A")>>), InlineSequence(<<Str("B")>>)>>)}
        RawRow == <<Str("A"), TableCellSpan_COLUMN, List(<<Str("B")>>)>>
        RawBlockAtoms ==
            {Str("A"), Text("B"), List(<<>>), Paragraph(List(<<Str("A"), Text("")>>)),
             Image("io2", "png", Str("c")),
             Table(List(<<RawRow>>),
                   ElementaryTable(<<RawRow, <<TableCellSpan_ROW, Text("C")>> >>))}
        NotBlock == {PyInt, PyNone, Paragraph(PyInt), Paragraph(Paragraph(Str("A")))}
        RawBlock1 ==
            RawBlockAtoms \cup NotBlock
            \cup {Section(t, b) : t \in {Str("S"), Paragraph(Str("S"))}, b \in RawBlockAtoms}
            \cup {Sequence(s) : s \in SeqsUpTo(RawBlockAtoms, MaxItems)}
            \cup {List(s) : s \in SeqsUpTo({Str("A"), List(<<>>), PyInt}, MaxItems)}
            \cup {UnorderedList(s) :
                    s \in SeqsUpTo({Str("A"), List(<<>>), Text("B")}, MaxItems)}
            \* a dict holds each key once
            \cup {Dict(s) : s \in {t \in SeqsUpTo({<<Str("a"), Str("A")>>,
                                                    <<Text("a"), List(<<>>)>>,
                                                    <<PyInt, Str("A")>>}, MaxItems) :
                                      \A i, j \in DOMAIN t : t[i][1] = t[j][1] => i = j}}
            \cup {DefinitionList(<<<<k, Str("A")>>>>) :
                    k \in {Str("a"), Attachment("io1", "a.txt", Str("a"))}}
        RawBlock ==
            RawBlock1
            \cup {UnorderedList(<<b>>) : b \in RawBlock1}
            \cup {Section(Str("S"), b) : b \in RawBlock1}
            \cup {Dict(<<<<Str("a"), b>>>>) : b \in RawBlock1}
            \cup {List(<<Section(Str("S"), Section(Str("S"), b))>>) : b \in RawBlockAtoms}
    IN {DocumentFactory(b) : b \in RawBlock}
       \cup {[DocumentFactory(Str("A")) EXCEPT ![f] = i] : f \in InlineFields, i \in RawInline}

-----------------------------------------------------------------------------
(* The state machine: the caller normalizes and renders its documents *)

Renderers == {"pdf", "docx", "html"}
NotYet == [kind |-> "NotYet"]
NotRendered == [done |-> FALSE]
Slots == DOMAIN docs

\* The caller's experiment: one raw document per run
InitRaw ==
    /\ kase = "raw"
    /\ \E d \in RawDocuments : docs = <<d>>
    /\ canon = [i \in DOMAIN docs |-> NotYet]
    /\ again = [i \in DOMAIN docs |-> NotYet]
    /\ renderer_class \in Renderers
    /\ out = [i \in DOMAIN docs |-> NotRendered]
    /\ cursor = [io \in Streams |-> 0]
    /\ clock = 0
    /\ called = NotYet

\* A variant of normalization that rewrites the caller's document in place
Normalize_in_place(i) ==
    /\ canon[i] = NotYet
    /\ canon' = [canon EXCEPT ![i] = Document_normalized(docs[i])]
    /\ docs' = [docs EXCEPT ![i] = IF IsRaise(canon'[i]) THEN @ ELSE canon'[i]]
    /\ UNCHANGED <<again, renderer_class, out, cursor, clock, kase, called>>

\* doc = doc.normalized()
Normalize(i) ==
    /\ canon[i] = NotYet
    /\ canon' = [canon EXCEPT ![i] = Document_normalized(docs[i])]
    /\ UNCHANGED <<docs, again, renderer_class, out, cursor, clock, kase, called>>

\* doc.normalized() on a document that was already normalized
NormalizeAgain(i) ==
    /\ canon[i].kind = "Document"
    /\ again[i] = NotYet
    /\ again' = [again EXCEPT ![i] = Document_normalized(canon[i])]
    /\ UNCHANGED <<docs, canon, renderer_class, out, cursor, clock, kase, called>>

\* The caller keeps the written file, and here also the streams' read positions
\* and the wall-clock the render started at
Rendered(i, result) ==
    /\ out' = [out EXCEPT ![i] =
                  [done |-> TRUE, file |-> result.file, cur0 |-> cursor, at |-> clock]]
    /\ cursor' = result.cur
    /\ UNCHANGED <<docs, canon, again, renderer_class, clock, kase, called>>

\* FPDFRenderer(doc).render(f)
RenderPDF(i) ==
    /\ renderer_class = "pdf"
    /\ canon[i].kind = "Document"
    /\ Rendered(i, FPDFRenderer(canon[i], cursor))

\* DOCXRenderer(doc).render(f)
RenderDOCX(i) ==
    /\ renderer_class = "docx"
    /\ canon[i].kind = "Document"
    /\ Rendered(i, DOCXRenderer(canon[i], cursor, clock))

\* HTMLRenderer(doc).render(f)
RenderHTML(i) ==
    /\ renderer_class = "html"
    /\ canon[i].kind = "Document"
    /\ Rendered(i, HTMLRenderer(canon[i], cursor))

\* Time passes
Tick ==
    /\ clock < MaxClock
    /\ clock' = clock + 1
    /\ UNCHANGED <<docs, canon, again, renderer_class, out, cursor, kase, called>>

Next ==
    \/ \E i \in Slots : Normalize(i)
    \/ \E i \in Slots : NormalizeAgain(i)
    \/ \E i \in Slots : RenderPDF(i)
    \/ \E i \in Slots : RenderDOCX(i)
    \/ \E i \in Slots : RenderHTML(i)

Spec == InitRaw /\ [][Next]_vars

-----------------------------------------------------------------------------
(* The experiments of test_renderers.py: two documents, rendered by each   *)
(* renderer and compared                                                   *)
(***************************************************************************)

\* inline elements, with sequences nested in sequences
InlineElements ==
    LET InlineAtoms == {Text("A"), Text(""), Attachment("io1", "a.txt", Text("L"))}
        InlineSequences1 == {InlineSequence(s) : s \in SeqsUpTo(InlineAtoms, MaxItems)}
    IN InlineAtoms \cup InlineSequences1
       \cup {InlineSequence(<<a>>) : a \in InlineSequences1}
       \cup {InlineSequence(<<a, b>>) : a \in InlineAtoms \cup InlineSequences1,
                                         b \in InlineAtoms \cup InlineSequences1}

BlockAtoms ==
    {Paragraph(Text("A")), Paragraph(Text("")), Sequence(<<>>),
     Section(Text("S"), Paragraph(Text("B"))),
     UnorderedList(<<Paragraph(Text("A")), Sequence(<<Sequence(<<>>), Paragraph(Text("B"))>>)>>),
     DefinitionList(<< <<Text("k"), Paragraph(Attachment("io1", "a.txt", Text("L")))>> >>),
     Image("io2", "png", Text("c")),
     Table(ElementaryTable(<< <<Text("H"), TableCellSpan_COLUMN>> >>),
           ElementaryTable(<< <<Text("A"), Text("B")>>, <<TableCellSpan_ROW, Text("C")>> >>))}

BlockElements ==
    BlockAtoms
    \cup {Sequence(s) : s \in SeqsUpTo(BlockAtoms, MaxItems)}
    \cup {UnorderedList(<<b>>) : b \in BlockAtoms}
    \cup {Section(Text("S"), b) : b \in BlockAtoms}
    \cup {Section(Text("S"), Sequence(<<Paragraph(Text("A")), Section(Text("S"), b)>>)) :
            b \in BlockAtoms}

\* The left-to-right list of the leaves of an inline element that are no sequences
RECURSIVE Leaves(_)
Leaves(e) ==
    IF e.kind = "InlineSequence"
    THEN LET RECURSIVE Cat(_)
             Cat(k) == IF k = 0 THEN <<>> ELSE Cat(k - 1) \o Leaves(e.items[k])
         IN Cat(Len(e.items))
    ELSE <<e>>

\* The non-empty texts a paragraph can follow an empty paragraph with
VisibleTexts == {Text("A"), Text("B"), InlineSequence(<<Text("A"), Text("B")>>)}

PairOfBodies(k, a, b) ==
    /\ kase = k
    /\ docs = <<DocumentFactory(a), DocumentFactory(b)>>

InitPair ==
    /\ \/ \E a \in BlockAtoms, b \in BlockAtoms, c \in BlockAtoms :
              PairOfBodies("nested", Sequence(<<Sequence(<<a, b>>), c>>),
                                     Sequence(<<a, Sequence(<<b, c>>)>>))
       \/ \E x \in BlockElements : PairOfBodies("single", Sequence(<<x>>), x)
       \/ \E x \in BlockElements : PairOfBodies("empty", Sequence(<<Sequence(<<>>), x>>), x)
       \/ \E e \in InlineElements :
              PairOfBodies("inline", Paragraph(e), Paragraph(InlineSequence(Leaves(e))))
       \/ \E t \in VisibleTexts :
              PairOfBodies("empty paragraph",
                           Sequence(<<Paragraph(Text("")), Paragraph(t)>>), Paragraph(t))
    /\ canon = [i \in DOMAIN docs |-> NotYet]
    /\ again = [i \in DOMAIN docs |-> NotYet]
    /\ renderer_class \in Renderers
    /\ out = [i \in DOMAIN docs |-> NotRendered]
    /\ cursor = [io \in Streams |-> 0]
    /\ clock = 0
    /\ called = NotYet

NextPair ==
    \/ \E i \in Slots : Normalize(i)
    \/ \E i \in Slots : RenderPDF(i)
    \/ \E i \in Slots : RenderDOCX(i)
    \/ \E i \in Slots : RenderHTML(i)

SpecPair == InitPair /\ [][NextPair]_vars

\* test_not_dependent_on_current_date: the same document, rendered twice
InitClock ==
    /\ \E x \in BlockAtoms \cup {Sequence(<<a, b>>) : a \in BlockAtoms, b \in BlockAtoms} :
          PairOfBodies("same", x, x)
    /\ canon = [i \in DOMAIN docs |-> NotYet]
    /\ again = [i \in DOMAIN docs |-> NotYet]
    /\ renderer_class \in Renderers
    /\ out = [i \in DOMAIN docs |-> NotRendered]
    /\ cursor = [io \in Streams |-> 0]
    /\ clock = 0
    /\ called = NotYet

NextClock ==
    \/ \E i \in Slots : Normalize(i)
    \/ \E i \in Slots : RenderPDF(i)
    \/ \E i \in Slots : RenderDOCX(i)
    \/ \E i \in Slots : RenderHTML(i)
    \/ Tick

SpecClock == InitClock /\ [][NextClock]_vars


-----------------------------------------------------------------------------
(* The caller hands a document to a renderer without normalizing it *)

\* Trees with one value that the renderers' dispatch does not handle: sugar
\* left as it was written, an inline element at a block position, a block
\* element at an inline position, a value that is no element
InitAsIs ==
    /\ kase = "as is"
    /\ LET NoBlock == {Str("A"), List(<<Str("A")>>), Dict(<<>>), PyInt, PyNone, Text("A"),
                       InlineSequence(<<Text("A")>>)}
           NoInline == {Str("A"), List(<<Text("A")>>), PyInt, PyNone, Paragraph(Text("A"))}
           BlockAround(x) ==
               {x, Sequence(<<Paragraph(Text("A")), x>>), Section(Text("S"), x),
                UnorderedList(<<x>>), DefinitionList(<< <<Text("k"), x>> >>),
                UnorderedList(<<Sequence(<<Sequence(<<>>), x>>)>>)}
           InlineAround(x) ==
               {Paragraph(x), Section(x, Paragraph(Text("A"))),
                DefinitionList(<< <<x, Paragraph(Text("A"))>> >>),
                Paragraph(InlineSequence(<<Text("A"), x>>)),
                Paragraph(Attachment("io1", "a.txt", x))}
       IN \E body \in UNION {BlockAround(x) : x \in NoBlock}
                     \cup UNION {InlineAround(x) : x \in NoInline} :
              docs = <<DocumentFactory(body)>>
    /\ canon = [i \in DOMAIN docs |-> NotYet]
    /\ again = [i \in DOMAIN docs |-> NotYet]
    /\ renderer_class \in Renderers
    /\ out = [i \in DOMAIN docs |-> NotRendered]
    /\ cursor = [io \in Streams |-> 0]
    /\ clock = 0
    /\ called = NotYet

\* Renderer(doc) with the raw doc: what the renderer walks is the caller's tree
HandOverAsIs(i) ==
    /\ canon[i] = NotYet
    /\ canon' = [canon EXCEPT ![i] = docs[i]]
    /\ UNCHANGED <<docs, again, renderer_class, out, cursor, clock, kase, called>>

NextAsIs ==
    \/ \E i \in Slots : HandOverAsIs(i)
    \/ \E i \in Slots : RenderPDF(i)
    \/ \E i \in Slots : RenderDOCX(i)
    \/ \E i \in Slots : RenderHTML(i)

SpecAsIs == InitAsIs /\ [][NextAsIs]_vars

-----------------------------------------------------------------------------
(* The caller reads a table's geometry, or a document's place and date *)

\* What the caller keeps of a call
Called(method, args, ret) == [kind |-> "called", method |-> method, args |-> args, ret |-> ret]

InitCalls ==
    /\ \/ /\ kase = "table"
          /\ LET Cells == {Text("A"), TableCellSpan_COLUMN, TableCellSpan_ROW}
                 Rows == SeqsUpTo(Cells, MaxItems)
                         \cup {<<Text("A"), TableCellSpan_COLUMN, TableCellSpan_COLUMN>>}
             IN \E rows \in SeqsUpTo(Rows, 2) \cup [1..3 -> SeqsUpTo(Cells, 1)] :
                    docs = <<ElementaryTable(rows)>>
       \/ /\ kase = "place and date"
          /\ \E place \in {Text("P"), Text(""), InlineSequence(<<Text("P"), Text("Q")>>),
                           Attachment("io1", "a.txt", Text("P"))},
                year \in {2017, 2025}, month \in {1, 12}, day \in {1, 31},
                hour \in {0, 23}, minute \in {0, 59} :
                docs = <<[DocumentFactory(Paragraph(Text("A"))) EXCEPT
                            !.creation_place = place,
                            !.creation_date = [year |-> year, month |-> month, day |-> day,
                                               hour |-> hour, minute |-> minute,
                                               second |-> 0]]>>
    /\ canon = [i \in DOMAIN docs |-> NotYet]
    /\ again = [i \in DOMAIN docs |-> NotYet]
    /\ renderer_class \in {"pdf"}
    /\ out = [i \in DOMAIN docs |-> NotRendered]
    /\ cursor = [io \in Streams |-> 0]
    /\ clock = 0
    /\ called = NotYet

\* table.get_cell(row_index, column_index), with any two integers
GetCell ==
    /\ kase = "table"
    /\ called = NotYet
    /\ \E row_index \in -1..3, column_index \in -1..(MaxItems + 1) :
          called' = Called("get_cell", <<row_index, column_index>>,
                           get_cell(docs[1], row_index, column_index))
    /\ UNCHANGED <<docs, canon, again, renderer_class, out, cursor, clock, kase>>

\* table.get_column_span(row_index, column_index)
GetColumnSpan ==
    /\ kase = "table"
    /\ called = NotYet
    /\ \E row_index \in -1..3, column_index \in -1..(MaxItems + 1) :
          called' = Called("get_column_span", <<row_index, column_index>>,
                           get_column_span(docs[1], row_index, column_index))
    /\ UNCHANGED <<docs, canon, again, renderer_class, out, cursor, clock, kase>>

\* table.get_row_span(row_index, column_index)
GetRowSpan ==
    /\ kase = "table"
    /\ called = NotYet
    /\ \E row_index \in -1..3, column_index \in -1..(MaxItems + 1) :
          called' = Called("get_row_span", <<row_index, column_index>>,
                           get_row_span(docs[1], row_index, column_index))
    /\ UNCHANGED <<docs, canon, again, renderer_class, out, cursor, clock, kase>>

\* doc.creation_place_and_date
CreationPlaceAndDate ==
    /\ kase = "place and date"
    /\ called = NotYet
    /\ called' = Called("creation_place_and_date", <<>>, creation_place_and_date(docs[1]))
    /\ UNCHANGED <<docs, canon, again, renderer_class, out, cursor, clock, kase>>

NextCalls ==
    \/ GetCell
    \/ GetColumnSpan
    \/ GetRowSpan
    \/ CreationPlaceAndDate

SpecCalls == InitCalls /\ [][NextCalls]_vars

-----------------------------------------------------------------------------
(* The caller nests Sections, and puts lists inside lists *)

MaxDepth == 4     \* the deepest chain of Sections the caller writes

InitNested ==
    /\ \/ /\ kase = "sections"
          /\ LET S == Text("S")
                 P == Paragraph(Text("A"))
                 RECURSIVE Chain(_), ChainInSequences(_)
                 Chain(n) == IF n = 0 THEN P ELSE Section(S, Chain(n - 1))
                 ChainInSequences(n) ==
                     IF n = 0 THEN P
                     ELSE Section(S, Sequence(<<P, ChainInSequences(n - 1)>>))
             IN \E n \in 1..MaxDepth :
                \E body \in {Chain(n), ChainInSequences(n),
                             Sequence(<<Chain(1), Chain(n)>>),
                             Sequence(<<Chain(n), Chain(1)>>),
                             Section(S, Sequence(<<Chain(n - 1), Chain(n - 1)>>))} :
                    docs = <<DocumentFactory(body)>>
       \/ /\ kase = "definition list"
          /\ LET P(t) == Paragraph(Text(t))
                 Terms == {Text("T"), Text("U")}
                 Definitions == {P("A"), Sequence(<<>>), UnorderedList(<<P("B")>>),
                                 Sequence(<<P("A"), P("B")>>)}
                 \* a mapping holds each key once
                 Items == {items \in SeqsUpTo(Terms \X Definitions, MaxItems) :
                              \A i, j \in DOMAIN items :
                                  items[i][1] = items[j][1] => i = j}
                 AsList(items) ==
                     UnorderedList([i \in DOMAIN items |->
                                       Sequence(<<Paragraph(items[i][1]), items[i][2]>>)])
                 Positions == {"top", "sequence", "section", "item", "item sequence",
                               "item of item"}
                 At(position, x) ==
                     CASE position = "top" -> x
                       [] position = "sequence" -> Sequence(<<P("A"), x>>)
                       [] position = "section" -> Section(Text("S"), x)
                       [] position = "item" -> UnorderedList(<<x>>)
                       [] position = "item sequence" ->
                              UnorderedList(<<Sequence(<<P("A"), x>>)>>)
                       [] position = "item of item" ->
                              UnorderedList(<<UnorderedList(<<x>>)>>)
             IN \E items \in Items, position \in Positions :
                    docs = <<DocumentFactory(At(position, DefinitionList(items))),
                             DocumentFactory(At(position, AsList(items)))>>
       \/ /\ kase = "list item"
          /\ LET P(t) == Paragraph(Text(t))
                 Nested == UnorderedList(<<P("N")>>)
                 Shapes == {P("A"),
                            Sequence(<<P("A"), P("B")>>),
                            Sequence(<<Sequence(<<>>), P("A")>>),
                            Sequence(<<Sequence(<<>>), P("A"), P("B")>>),
                            Sequence(<<Sequence(<<P("A")>>), P("B")>>),
                            Sequence(<<P("A"), Sequence(<<P("B")>>)>>),
                            Sequence(<<P("A"), Nested, P("B")>>),
                            Sequence(<<P("A"), Nested>>),
                            Sequence(<<Nested, P("A")>>),
                            Nested}
             IN \E item \in Shapes :
                \E body \in {UnorderedList(<<item>>),
                             UnorderedList(<<item, P("C")>>),
                             UnorderedList(<<P("C"), item>>),
                             UnorderedList(<<UnorderedList(<<item>>)>>),
                             Sequence(<<P("C"), UnorderedList(<<item>>)>>)} :
                    docs = <<DocumentFactory(body)>>
       \/ /\ kase = "list context"
          /\ LET Around(X) ==
                     X \cup {Sequence(<<a>>) : a \in X}
                       \cup {Sequence(<<a, b>>) : a \in X, b \in X}
                       \cup {UnorderedList(<<a>>) : a \in X}
                       \cup {UnorderedList(<<a, b>>) : a \in X, b \in X}
                       \cup {DefinitionList(<< <<Text("T"), a>> >>) : a \in X}
                       \cup {Section(Text("S"), a) : a \in X}
             IN \E body \in Around(Around({Paragraph(Text("A")), Sequence(<<>>)})) :
                    docs = <<DocumentFactory(body)>>
    /\ canon = [i \in DOMAIN docs |-> NotYet]
    /\ again = [i \in DOMAIN docs |-> NotYet]
    /\ renderer_class \in Renderers
    /\ out = [i \in DOMAIN docs |-> NotRendered]
    /\ cursor = [io \in Streams |-> 0]
    /\ clock = 0
    /\ called = NotYet

SpecNested == InitNested /\ [][NextPair]_vars

-----------------------------------------------------------------------------
(* What a raw tree may hold at each position, and what a canonical tree holds *)

RECURSIVE IsRawInline(_), IsRawBlock(_)

\* A value accepted where an InlineElement is expected
IsRawInline(e) ==
    CASE e.kind = "str" -> TRUE
      [] e.kind = "list" -> \A i \in 1..Len(e.items) : IsRawInline(e.items[i])
      [] e.kind = "Text" -> TRUE
      [] e.kind = "InlineSequence" -> \A i \in 1..Len(e.items) : IsRawInline(e.items[i])
      [] e.kind = "Attachment" -> IsRawInline(e.text)
      [] OTHER -> FALSE

IsRawRows(rows) ==
    \A r \in 1..Len(rows) : \A c \in 1..Len(rows[r]) :
        rows[r][c].kind = "TableCellSpan" \/ IsRawInline(rows[r][c])

\* A value accepted where an ElementaryTable is expected
IsRawElementaryTable(t) ==
    CASE t.kind = "list" -> IsRawRows(t.items)
      [] t.kind = "ElementaryTable" -> IsRawRows(t.rows)
      [] OTHER -> FALSE

\* A value accepted where a BlockElement is expected
IsRawBlock(e) ==
    CASE e.kind = "str" -> TRUE
      [] e.kind = "dict" ->
            \A i \in 1..Len(e.items) : IsRawInline(e.items[i][1]) /\ IsRawBlock(e.items[i][2])
      [] e.kind = "list" -> \A i \in 1..Len(e.items) : IsRawBlock(e.items[i])
      [] e.kind \in InlineElementKinds -> IsRawInline(e)
      [] e.kind = "Section" -> IsRawInline(e.title) /\ IsRawBlock(e.body)
      [] e.kind = "Sequence" -> \A i \in 1..Len(e.items) : IsRawBlock(e.items[i])
      [] e.kind = "Paragraph" -> IsRawInline(e.text)
      [] e.kind = "Table" -> IsRawElementaryTable(e.head) /\ IsRawElementaryTable(e.body)
      [] e.kind = "UnorderedList" -> \A i \in 1..Len(e.items) : IsRawBlock(e.items[i])
      [] e.kind = "DefinitionList" ->
            \A i \in 1..Len(e.items) : IsRawInline(e.items[i][1]) /\ IsRawBlock(e.items[i][2])
      [] e.kind = "Image" -> IsRawInline(e.caption)
      [] OTHER -> FALSE

IsRawDocument(d) ==
    /\ \A f \in InlineFields : IsRawInline(d[f])
    /\ IsRawBlock(d.body)

RECURSIVE IsCanonicalInline(_), IsCanonicalBlock(_)

IsCanonicalInline(e) ==
    CASE e.kind = "Text" -> TRUE
      [] e.kind = "InlineSequence" -> \A i \in 1..Len(e.items) : IsCanonicalInline(e.items[i])
      [] e.kind = "Attachment" -> IsCanonicalInline(e.text)
      [] OTHER -> FALSE

IsCanonicalElementaryTable(t) ==
    /\ t.kind = "ElementaryTable"
    /\ \A r \in 1..Len(t.rows) : \A c \in 1..Len(t.rows[r]) :
          t.rows[r][c].kind = "TableCellSpan" \/ IsCanonicalInline(t.rows[r][c])

IsCanonicalBlock(e) ==
    CASE e.kind = "Section" -> IsCanonicalInline(e.title) /\ IsCanonicalBlock(e.body)
      [] e.kind = "Sequence" -> \A i \in 1..Len(e.items) : IsCanonicalBlock(e.items[i])
      [] e.kind = "Paragraph" -> IsCanonicalInline(e.text)
      [] e.kind = "Table" ->
            IsCanonicalElementaryTable(e.head) /\ IsCanonicalElementaryTable(e.body)
      [] e.kind = "UnorderedList" -> \A i \in 1..Len(e.items) : IsCanonicalBlock(e.items[i])
      [] e.kind = "DefinitionList" ->
            \A i \in 1..Len(e.items) :
                IsCanonicalInline(e.items[i][1]) /\ IsCanonicalBlock(e.items[i][2])
      [] e.kind = "Image" -> IsCanonicalInline(e.caption)
      [] OTHER -> FALSE

IsCanonicalDocument(d) ==
    /\ d.kind = "Document"
    /\ \A f \in InlineFields : IsCanonicalInline(d[f])
    /\ IsCanonicalBlock(d.body)

\* Both documents of experiment k were rendered, from the same read positions
Compared(k) ==
    /\ kase = k
    /\ \A i \in Slots : out[i].done
    /\ out[1].cur0 = out[2].cur0

SameOutput == out[1].file = out[2].file

-----------------------------------------------------------------------------
(* The claims *)

\* C1: normalizing the result of normalization changes nothing: the second
\* normalized() returns a tree structurally equal to the first one's.
NormalizationIsIdempotent ==
    \A i \in Slots : again[i] # NotYet => again[i] = canon[i]

\* A raw document with sugar in it was normalized twice
NormalizedTwiceFromSugar ==
    /\ IsRawDocument(docs[1])
    /\ docs[1].body.kind = "list"
    /\ canon[1] # docs[1]
    /\ again[1] # NotYet

\* C2: after Document.normalized() on a raw document that holds, at every
\* position, a sugar value or a canonical variant accepted there, the result
\* is a Document in which every block position holds a canonical block variant,
\* every inline position a canonical inline variant and every table an
\* ElementaryTable of canonical inline elements and span markers.
NoSugarSurvivesNormalization ==
    \A i \in Slots :
        (IsRawDocument(docs[i]) /\ canon[i] # NotYet) => IsCanonicalDocument(canon[i])

\* A raw definition list (a dict) with sugar keys and values was normalized
NormalizedSugarMapping ==
    /\ IsRawDocument(docs[1])
    /\ docs[1].body.kind = "dict"
    /\ Len(docs[1].body.items) = 2
    /\ canon[1].kind = "Document"

\* C3: rendering Sequence([Sequence([A, B]), C]) gives the same output as
\* rendering Sequence([A, Sequence([B, C])]), with every renderer and for all
\* blocks A, B, C, those that generate nothing included.
NestedSequencesRenderAlike == Compared("nested") => SameOutput

\* C4: rendering the document whose body is Sequence([X]) gives the same output
\* as rendering the document whose body is X, with every renderer.
SingletonSequenceRendersAsItsItem == Compared("single") => SameOutput

\* A Section and the singleton Sequence of it were rendered to PDF
SingletonSectionRendered ==
    /\ Compared("single")
    /\ renderer_class = "pdf"
    /\ docs[2].body.kind = "Section"
    /\ ~IsRaise(out[1].file)

\* C5: rendering Sequence([Sequence([]), X]) gives the same output as rendering
\* X, with every renderer.
EmptySequenceRendersAsNothing == Compared("empty") => SameOutput

\* A paragraph, alone and after an empty Sequence, was rendered to PDF
EmptySequenceThenParagraphRendered ==
    /\ Compared("empty")
    /\ renderer_class = "pdf"
    /\ docs[2].body = Paragraph(Text("A"))
    /\ ~IsRaise(out[1].file)

\* C6: the output of rendering an inline element depends only on the
\* left-to-right list of its leaves that are no sequences: a paragraph of the
\* element renders as the paragraph of the flat InlineSequence of its leaves.
InlineLeavesDecideOutput == Compared("inline") => SameOutput

\* A sequence nested in a sequence was rendered to HTML, and so was its flat form
NestedInlineSequenceRendered ==
    /\ Compared("inline")
    /\ renderer_class = "html"
    /\ docs[1].body.text.kind = "InlineSequence"
    /\ Len(docs[1].body.text.items) = 2
    /\ docs[1].body.text.items[1].kind = "InlineSequence"
    /\ Len(docs[1].body.text.items[1].items) = 2
    /\ ~IsRaise(out[1].file)

\* C7: a Paragraph with empty text followed by a paragraph is not dropped:
\* rendering Sequence([Paragraph(Text('')), Paragraph(t)]) gives an output
\* different from rendering Paragraph(t), with every renderer.
EmptyParagraphIsRepresented == Compared("empty paragraph") => ~SameOutput

\* The empty paragraph followed by Paragraph(Text('A')) was rendered to PDF
EmptyParagraphRendered ==
    /\ Compared("empty paragraph")
    /\ renderer_class = "pdf"
    /\ docs[2].body = Paragraph(Text("A"))
    /\ ~IsRaise(out[1].file) /\ ~IsRaise(out[2].file)

\* C8: two renders of the same document give the same output whatever the
\* wall-clock is when each of them runs.
RenderIgnoresWallClock == Compared("same") => SameOutput

\* The same document was rendered to DOCX at two different wall-clock instants
RenderedAtTwoInstants ==
    /\ Compared("same")
    /\ renderer_class = "docx"
    /\ out[1].at # out[2].at
    /\ ~IsRaise(out[1].file)

\* C9: normalization raises whenever the raw document holds, at some position,
\* a value that is neither sugar nor a canonical variant accepted there.
UnrecognizedValueFailsNormalization ==
    \A i \in Slots : (canon[i] # NotYet /\ ~IsRawDocument(docs[i])) => IsRaise(canon[i])

\* C10: constructing a renderer on a canonical document never raises.
RenderersAreTotal ==
    \A i \in Slots : (out[i].done /\ IsCanonicalDocument(canon[i])) => ~IsRaise(out[i].file)

\* C11: get_column_span(r, c) returns 1 plus the number of consecutive COLUMN
\* markers that immediately follow (r, c) in row r, and get_row_span(r, c)
\* returns 1 plus the number of consecutive ROW markers immediately below
\* (r, c) in column c, in every table, rows of different lengths included.
SpansCountMarkers ==
    (called # NotYet /\ called.method \in {"get_column_span", "get_row_span"}) =>
        LET rows == docs[1].rows
            r == called.args[1]
            c == called.args[2]
            IsAt(ri, ci, marker) ==
                /\ ri \in 0..(Len(rows) - 1)
                /\ ci \in 0..(Len(rows[ri + 1]) - 1)
                /\ rows[ri + 1][ci + 1] = marker
            Follows(k) ==
                IF called.method = "get_column_span"
                THEN IsAt(r, c + k, TableCellSpan_COLUMN)
                ELSE IsAt(r + k, c, TableCellSpan_ROW)
            markers == {k \in 1..(MaxItems + 4) : \A j \in 1..k : Follows(j)}
        IN called.ret = 1 + Cardinality(markers)

\* The column span of a cell followed by two COLUMN markers was read, in a
\* table whose rows differ in length
ColumnSpanOfThreeRead ==
    /\ called # NotYet
    /\ called.method = "get_column_span"
    /\ called.ret = 3
    /\ Len(docs[1].rows) = 2
    /\ Len(docs[1].rows[1]) # Len(docs[1].rows[2])

\* C12: get_cell(r, c) never raises, for any two integers: it returns
\* rows[r][c] when 0 <= r < number of rows and 0 <= c < length of row r, and
\* None otherwise.
GetCellIsTotal ==
    (called # NotYet /\ called.method = "get_cell") =>
        LET rows == docs[1].rows
            r == called.args[1]
            c == called.args[2]
        IN /\ ~IsRaise(called.ret)
           /\ called.ret = IF r \in 0..(Len(rows) - 1) /\ c \in 0..(Len(rows[r + 1]) - 1)
                           THEN rows[r + 1][c + 1]
                           ELSE PyNone

\* A cell was looked up with a negative column index in a row that has cells
NegativeIndexLookedUp ==
    /\ called # NotYet
    /\ called.method = "get_cell"
    /\ called.args = <<0, -1>>
    /\ Len(docs[1].rows) > 0
    /\ Len(docs[1].rows[1]) = 2
    /\ called.ret = PyNone

\* C13, as stated: creation_place_and_date is the plain text of creation_place
\* directly followed by the date of creation_date as YYYY-MM-DD.
PlaceDirectlyFollowedByDate ==
    (called # NotYet /\ called.method = "creation_place_and_date") =>
        LET d == docs[1].creation_date
            date == (IF d.year = 2017 THEN "2017" ELSE "2025") \o "-"
                    \o (IF d.month = 1 THEN "01" ELSE "12") \o "-"
                    \o (IF d.day = 1 THEN "01" ELSE "31")
        IN called.ret = plain_string(docs[1].creation_place) \o date

\* C13, amended: creation_place_and_date is the plain text of creation_place,
\* then a comma and a space, then the date of creation_date as YYYY-MM-DD; the
\* time of day does not appear.
PlaceCommaDate ==
    (called # NotYet /\ called.method = "creation_place_and_date") =>
        LET d == docs[1].creation_date
            date == (IF d.year = 2017 THEN "2017" ELSE "2025") \o "-"
                    \o (IF d.month = 1 THEN "01" ELSE "12") \o "-"
                    \o (IF d.day = 1 THEN "01" ELSE "31")
        IN called.ret = plain_string(docs[1].creation_place) \o ", " \o date

\* The place and date of a document created at 23:59 were read
PlaceAndDateReadLateInTheDay ==
    /\ called # NotYet
    /\ called.method = "creation_place_and_date"
    /\ docs[1].creation_date.hour = 23
    /\ docs[1].creation_date.minute = 59
    /\ docs[1].creation_place.kind = "InlineSequence"

\* C14: every read of a payload stream is preceded, within the render, by a
\* reset of its cursor to the start: a second render of the same tree, which
\* finds the streams where the first render left them, embeds the same bytes
\* and gives the same output as the first.
RendersReadPayloadsFromTheStart ==
    (kase = "same" /\ \A i \in Slots : out[i].done) => out[1].file = out[2].file

UnhandledValueFailsRender ==
    \A i \in Slots :
        (kase = "as is" /\ out[i].done) =>
            LET RECURSIVE NotInlineVariant(_), BlockDefect(_), InlineDefect(_)
                NotInlineVariant(x) ==
                    CASE x.kind = "Text" -> FALSE
                      [] x.kind = "InlineSequence" ->
                            \E k \in 1..Len(x.items) : NotInlineVariant(x.items[k])
                      [] x.kind = "Attachment" -> NotInlineVariant(x.text)
                      [] OTHER -> TRUE
                \* a block position holds a value add_element does not handle
                BlockDefect(e) ==
                    CASE e.kind = "Section" -> BlockDefect(e.body)
                      [] e.kind \in {"Sequence", "UnorderedList"} ->
                            \E k \in 1..Len(e.items) : BlockDefect(e.items[k])
                      [] e.kind = "DefinitionList" ->
                            \E k \in 1..Len(e.items) : BlockDefect(e.items[k][2])
                      [] e.kind \in {"Paragraph", "Table", "Image"} -> FALSE
                      [] OTHER -> TRUE
                \* a position passed to add_inline_element holds a value it does not handle
                InlineDefect(e) ==
                    CASE e.kind = "Section" -> NotInlineVariant(e.title) \/ InlineDefect(e.body)
                      [] e.kind \in {"Sequence", "UnorderedList"} ->
                            \E k \in 1..Len(e.items) : InlineDefect(e.items[k])
                      [] e.kind = "DefinitionList" ->
                            \E k \in 1..Len(e.items) :
                                NotInlineVariant(e.items[k][1]) \/ InlineDefect(e.items[k][2])
                      [] e.kind = "Paragraph" -> NotInlineVariant(e.text)
                      [] OTHER -> FALSE
            IN (\/ BlockDefect(canon[i].body)
                \/ renderer_class \in {"pdf", "html"} /\ InlineDefect(canon[i].body))
               => out[i].file = Raise("ValueError")

\* A Sequence whose second item is a bare string was handed to the HTML
\* renderer as it was written, and the render failed
BareStringReachedDispatch ==
    /\ kase = "as is"
    /\ renderer_class = "html"
    /\ out[1].done
    /\ canon[1] = docs[1]
    /\ docs[1].body = Sequence(<<Paragraph(Text("A")), Str("A")>>)
    /\ IsRaise(out[1].file)

\* C17: a Section enclosed by d other Sections is emitted at heading level
\* base + d, with base 2 in HTML, 1 in DOCX and 0 in PDF, however deep the
\* nesting goes: every render of nested Sections succeeds and its headings,
\* in document order, carry exactly these levels
SectionLevelsFollowNesting ==
    LET RECURSIVE Depths(_, _), DepthsOfItems(_, _, _), Headings(_), HeadingsOfKids(_, _)
        Depths(e, d) ==
            CASE e.kind = "Section" -> <<d>> \o Depths(e.body, d + 1)
              [] e.kind = "Sequence" -> DepthsOfItems(e.items, 1, d)
              [] OTHER -> <<>>
        DepthsOfItems(items, k, d) ==
            IF k > Len(items) THEN <<>>
            ELSE Depths(items[k], d) \o DepthsOfItems(items, k + 1, d)
        HeadingTags == {"h" \o ToStr(l) : l \in 2..(MaxDepth + 2)}
        Headings(el) ==
            (IF el.tag \in HeadingTags
             THEN <<CHOOSE l \in 2..(MaxDepth + 2) : el.tag = "h" \o ToStr(l)>>
             ELSE <<>>) \o HeadingsOfKids(el.kids, 1)
        HeadingsOfKids(kids, k) ==
            IF k > Len(kids) THEN <<>>
            ELSE Headings(kids[k]) \o HeadingsOfKids(kids, k + 1)
        IsHeading(item) == item.op = "heading"
        Emitted(file) ==
            CASE file.kind = "pdf" -> [k \in DOMAIN file.outline |-> file.outline[k].level]
              [] file.kind = "docx" ->
                    \* the first heading is the cover's title
                    LET headings == Tail(SelectSeq(file.body, IsHeading))
                    IN [k \in DOMAIN headings |-> headings[k].level]
              [] file.kind = "html" -> Headings(file.root)
        Base == CASE renderer_class = "pdf" -> 0
                  [] renderer_class = "docx" -> 1
                  [] renderer_class = "html" -> 2
        Expected(body) ==
            LET depths == Depths(body, 0) IN [k \in DOMAIN depths |-> Base + depths[k]]
    IN (kase = "sections" /\ out[1].done)
           => /\ ~IsRaise(out[1].file)
              /\ Emitted(out[1].file) = Expected(canon[1].body)

\* C18: in the PDF and DOCX renderers a DefinitionList, at top level or inside
\* a list item at any depth, renders exactly as the UnorderedList of
\* Sequence([Paragraph(term), definition]) items put at the same position
DefinitionListRendersAsUnorderedList ==
    (Compared("definition list") /\ renderer_class \in {"pdf", "docx"}) => SameOutput

\* C19: in the DOCX renderer every UnorderedList item holding at least one
\* paragraph outside nested lists is one list entry: the first of these
\* paragraphs carries the bullet style of the item's nesting level, every later
\* one the continuation style of that level, whatever the item's shape
EachListItemIsOneBullet ==
    LET RECURSIVE Own(_), OwnOfItems(_, _), ItemsAreEntries(_, _, _)
        \* the texts of the paragraphs of an item outside nested lists
        Own(e) ==
            CASE e.kind = "Paragraph" -> <<plain_string(e.text)>>
              [] e.kind = "Sequence" -> OwnOfItems(e.items, 1)
              [] OTHER -> <<>>
        OwnOfItems(items, k) ==
            IF k > Len(items) THEN <<>> ELSE Own(items[k]) \o OwnOfItems(items, k + 1)
        Suffix(n) == IF n = 1 THEN "" ELSE " " \o ToStr(n)
        Entry(texts, n) ==
            [k \in DOMAIN texts |->
                [op |-> "paragraph", text |-> texts[k],
                 style |-> (IF k = 1 THEN "List Bullet" ELSE "List Continue") \o Suffix(n)]]
        Emitted(body, texts) ==
            LET Of(item) == /\ item.op = "paragraph"
                            /\ \E k \in DOMAIN texts : item.text = texts[k]
            IN SelectSeq(body, Of)
        \* e stands inside n UnorderedLists
        ItemsAreEntries(body, e, n) ==
            CASE e.kind = "UnorderedList" ->
                    \A k \in DOMAIN e.items :
                        /\ Own(e.items[k]) # <<>>
                              => Emitted(body, Own(e.items[k])) = Entry(Own(e.items[k]), n + 1)
                        /\ ItemsAreEntries(body, e.items[k], n + 1)
              [] e.kind = "Sequence" ->
                    \A k \in DOMAIN e.items : ItemsAreEntries(body, e.items[k], n)
              [] OTHER -> TRUE
    IN (kase = "list item" /\ renderer_class = "docx" /\ out[1].done)
           => /\ ~IsRaise(out[1].file)
              /\ ItemsAreEntries(out[1].file.body, canon[1].body, 0)

\* C20: normalizing a DefinitionList, or a bare mapping in block position,
\* keeps its entries: as many entries in the same order, the i-th term being
\* normalized_inline of the i-th original term and the i-th definition
\* normalized_block of the i-th original definition, also when two distinct
\* keys normalize to equal terms
DefinitionListKeepsItsEntries ==
    \A i \in Slots :
        (canon[i].kind = "Document" /\ docs[i].body.kind \in {"dict", "DefinitionList"})
            => LET original == docs[i].body.items
                   result == canon[i].body.items
               IN /\ Len(result) = Len(original)
                  /\ \A k \in DOMAIN original :
                        result[k] = <<normalized_inline(original[k][1]),
                                      normalized_block(original[k][2])>>

\* C21: in the DOCX traversal of a canonical tree the state reaching
\* add_paragraph is consistent (first_in_list_item only with list_level >= 1,
\* list_level never 0), so add_paragraph never takes its error branch: no DOCX
\* render fails in add_paragraph, and every paragraph of the body carries the
\* style of a consistent state
ParagraphConfigIsAlwaysValid ==
    LET RECURSIVE SectionInList(_, _)
        \* a Section inside a list item reaches add_heading with level None
        SectionInList(e, listed) ==
            CASE e.kind = "Section" -> listed \/ SectionInList(e.body, listed)
              [] e.kind = "Sequence" ->
                    \E k \in DOMAIN e.items : SectionInList(e.items[k], listed)
              [] e.kind = "UnorderedList" ->
                    \E k \in DOMAIN e.items : SectionInList(e.items[k], TRUE)
              [] e.kind = "DefinitionList" ->
                    \E k \in DOMAIN e.items : SectionInList(e.items[k][2], TRUE)
              [] OTHER -> FALSE
        Levels == 1..(MaxDepth + 2)
        Suffix(n) == IF n = 1 THEN "" ELSE " " \o ToStr(n)
        \* style of (list_level, first_in_list_item): None and FALSE, n >= 1 and
        \* FALSE, n >= 1 and TRUE
        Consistent == {"Body Text"}
                      \cup {"List Continue" \o Suffix(n) : n \in Levels}
                      \cup {"List Bullet" \o Suffix(n) : n \in Levels}
        InBody(item) == item.op = "paragraph" /\ item.style # "Normal"
    IN \A i \in Slots :
        (renderer_class = "docx" /\ out[i].done)
            => IF IsRaise(out[i].file)
               THEN out[i].file = Raise("TypeError") /\ SectionInList(canon[i].body, FALSE)
               ELSE LET paragraphs == SelectSeq(out[i].file.body, InBody)
                    IN \A k \in DOMAIN paragraphs : paragraphs[k].style \in Consistent

\* A DefinitionList standing in an item of a list nested in a list item was rendered to DOCX
DefinitionListInNestedItemRendered ==
    /\ kase = "definition list"
    /\ renderer_class = "docx"
    /\ out[1].done
    /\ ~IsRaise(out[1].file)
    /\ canon[1].body.kind = "UnorderedList"
    /\ canon[1].body.items[1].kind = "UnorderedList"
    /\ canon[1].body.items[1].items[1].kind = "DefinitionList"
    /\ Len(canon[1].body.items[1].items[1].items) = 2

====
